---- MODULE Spec2Model ----
(***************************************************************************)
(* A model of pybind/cast.h: the generic heap caster with its instance     *)
(* registry and return value policies, the number and vector casters, the  *)
(* implicit-conversion search of load, and handle::call.                   *)
(***************************************************************************)
EXTENDS Integers, Sequences, FiniteSets, TLC

VARIABLES
    objs,                  \* the host heap: object id -> instance fields and reference count
    registered_instances,  \* internals.registered_instances: native pointer -> object id
    mem,                   \* native memory: address -> the value stored there
    err,                   \* the host error indicator (PyErr_Occurred)
    steps,                 \* operations performed so far (bounds the run)
    last,                  \* observation of the most recent generic cast
    idcasts,               \* observation: <<pointer, object>> of every reference/take_ownership cast
    selfref,               \* observation: pointers whose cast hit the dont_cache exception
    freed,                 \* native addresses whose value an owning instance deleted
    call,                  \* observation of the most recent handle::call
    ld,                    \* a generic caster loading: its inputs, fields and result
    num,                   \* a number caster loading: its inputs, value and result
    vec                    \* a vector<int32_t> caster, the list it casts to and loads from

vars == <<objs, registered_instances, mem, err, steps, last, idcasts, selfref,
          freed, call, ld, num, vec>>

----------------------------------------------------------------------------
(* Bounds of the model *)

\* the native values the program holds before any cast, at addresses 1..NumPtrs
NumPtrs == 3
\* operations (casts, native writes) performed in one run of the generic caster
MaxSteps == 3
\* arguments of one handle::call
MaxArgs == 3
\* calls performed in one run of the call marshaller
MaxCalls == 2
\* implicit conversions registered for one type
MaxConv == 3
\* elements of a native vector or a dynamic list
MaxLen == 3
\* operations on one vector caster
MaxVecOps == 3

----------------------------------------------------------------------------
(* Types, policies, the type registry *)

\* the native types cast.h is instantiated with: a copy-constructible
\* registered class, a registered class without copy constructor and a
\* class the binding layer never registered
NativeTypes == <<"T", "N", "U">>

\* the static type of the value at an address; a copy made by the copy
\* policy has the (copy-constructible, registered) type of its source
TypeOf(a) == IF a > NumPtrs THEN "T" ELSE NativeTypes[((a - 1) % 3) + 1]

\* internals.registered_types, filled by the binding layer before any cast
registered_types == {"T", "N"}

\* std::is_copy_constructible<T>::value
is_copy_constructible(t) == t \in {"T", "U"}

return_value_policy ==
    {"automatic", "copy", "reference", "reference_internal", "take_ownership"}

\* Py_None is the object with id 1; 0 stands for nullptr both as a native
\* pointer and as a PyObject *
Py_None == 1

NoneObject ==
    [value |-> 0, owned |-> FALSE, parent |-> 0, refcnt |-> 1,
     type |-> "None", holder |-> FALSE]

----------------------------------------------------------------------------
(* The generic caster: type_caster<type>::cast *)

\* Py_INCREF / Py_XINCREF
Py_XINCREF(os, o) ==
    IF o = 0 THEN os ELSE [os EXCEPT ![o].refcnt = @ + 1]

\* the heap the caster works on, as one value
Heap ==
    [objs |-> objs, reg |-> registered_instances, mem |-> mem, err |-> err,
     freed |-> freed]

\* a caster without the self-reference exception
dont_cache_ignored(h, src, policy, parent) == FALSE

\* line 65: the self-reference exception
dont_cache(h, src, policy, parent) ==
    /\ policy = "reference_internal"
    /\ parent # 0
    /\ h.objs[parent].value = src

\* lines 68-69: the lookup in the instance registry
found_instance(h, src, policy, parent) ==
    /\ src \in DOMAIN h.reg
    /\ ~dont_cache(h, src, policy, parent)

\* line 81-84: PyType_GenericAlloc of type_info.type and the initial fields
new_instance(type, src) ==
    [value |-> src, owned |-> TRUE, parent |-> 0, refcnt |-> 1,
     type |-> type, holder |-> FALSE]

\* lines 95-119: handle_return_value_policy, both overloads; thrown is the
\* cast_error of the non-copyable overload
handle_return_value_policy(h, inst, policy, parent) ==
    LET o == h.objs[inst] IN
    IF policy = "copy" THEN
        IF is_copy_constructible(o.type)
        THEN [h |-> [h EXCEPT !.mem = Append(@, @[o.value]),
                              !.objs[inst].value = Len(h.mem) + 1],
              thrown |-> FALSE]
        ELSE [h |-> h, thrown |-> TRUE]
    ELSE IF policy = "reference" THEN
        [h |-> [h EXCEPT !.objs[inst].owned = FALSE], thrown |-> FALSE]
    ELSE IF policy = "reference_internal" THEN
        [h |-> [h EXCEPT !.objs = Py_XINCREF(
                    [@ EXCEPT ![inst].owned = FALSE, ![inst].parent = parent],
                    parent)],
         thrown |-> FALSE]
    ELSE [h |-> h, thrown |-> FALSE]

\* a caster that forgets to enter the new instance in the registry
register_instance_dropped(reg, key, inst) == reg

\* line 91: registered_instances[inst->value] = inst_pyobj
register_instance(reg, key, inst) ==
    [p \in DOMAIN reg \cup {key} |-> IF p = key THEN inst ELSE reg[p]]

\* lines 58-93: type_caster<type>::cast(const type *, policy, parent).  ret
\* is the returned PyObject * (0: nullptr), thrown a propagating cast_error,
\* alloc whether PyType_GenericAlloc ran
cast(h, type, src, policy, parent) ==
    IF src = 0 THEN
        [h |-> [h EXCEPT !.objs = Py_XINCREF(@, Py_None)],
         ret |-> Py_None, thrown |-> FALSE, alloc |-> FALSE]
    ELSE IF found_instance(h, src, policy, parent) THEN
        [h |-> [h EXCEPT !.objs = Py_XINCREF(@, h.reg[src])],
         ret |-> h.reg[src], thrown |-> FALSE, alloc |-> FALSE]
    ELSE IF type \notin registered_types THEN
        [h |-> [h EXCEPT !.err = TRUE],
         ret |-> 0, thrown |-> FALSE, alloc |-> FALSE]
    ELSE
        LET inst == Len(h.objs) + 1
            h1 == [h EXCEPT !.objs = Append(@, new_instance(type, src))]
            pol == IF policy = "automatic" THEN "take_ownership" ELSE policy
            r == handle_return_value_policy(h1, inst, pol, parent)
            h2 == [r.h EXCEPT !.objs[inst].holder = TRUE]
            h3 == IF dont_cache(h, src, policy, parent)
                  THEN h2
                  ELSE [h2 EXCEPT !.reg =
                           register_instance(@, h2.objs[inst].value, inst)]
        IN IF r.thrown
           THEN [h |-> r.h, ret |-> 0, thrown |-> TRUE, alloc |-> TRUE]
           ELSE [h |-> h3, ret |-> inst, thrown |-> FALSE, alloc |-> TRUE]

\* lines 58-93 for a pointer to a complete object: type is the object's type
cast_ptr(h, src, policy, parent) ==
    cast(h, TypeOf(src), src, policy, parent)

\* lines 52-56: cast(const type &, policy, parent)
cast_ref(h, src, policy, parent) ==
    cast_ptr(h, src, IF policy = "automatic" THEN "copy" ELSE policy, parent)

----------------------------------------------------------------------------
(* The state machine of the generic caster *)

NoCast ==
    [op |-> "none", type |-> "none", src |-> 0, policy |-> "automatic",
     parent |-> 0, ret |-> 0, thrown |-> FALSE, alloc |-> FALSE, nobjs |-> 0,
     refBefore |-> 0, prev |-> 0, srcVal |-> 0, parentRef |-> 0,
     regKept |-> TRUE]

NoCall ==
    [outcome |-> "none", invoked |-> FALSE, args |-> <<>>, produced |-> <<>>,
     pre |-> <<>>]

\* the casters of the other sections, not in use
NoLoad == [pc |-> "none"]
NoNum == [pc |-> "none"]
NoVec == [pc |-> "none"]

\* the heap and registry before any cast
HeapInit ==
    /\ objs = <<NoneObject>>
    /\ registered_instances = <<>>
    /\ mem = [a \in 1..NumPtrs |-> 0]
    /\ err = FALSE
    /\ steps = 0
    /\ last = NoCast
    /\ idcasts = {}
    /\ selfref = {}
    /\ freed = {}
    /\ call = NoCall

\* the variables of the generic caster other than the error indicator
heapRest ==
    <<objs, registered_instances, mem, steps, last, idcasts, selfref, freed, call>>

heapVars == <<heapRest, err>>

Init ==
    /\ HeapInit
    /\ ld = NoLoad
    /\ num = NoNum
    /\ vec = NoVec

\* the live instances (the objects a caller can name as parent): not
\* Py_None, not a destroyed object
Instances(os) == {o \in 1..Len(os) : os[o].type # "None" /\ os[o].refcnt > 0}

\* the object an earlier reference/take_ownership cast of src returned
PrevOf(src) ==
    IF \E c \in idcasts : c[1] = src
    THEN (CHOOSE c \in idcasts : c[1] = src)[2]
    ELSE 0

\* what a cast leaves behind: the heap the code produced and the observations
Observe(r, type, src, eff, parent) ==
    /\ objs' = r.h.objs
    /\ registered_instances' = r.h.reg
    /\ mem' = r.h.mem
    /\ err' = r.h.err
    /\ steps' = steps + 1
    /\ last' = [op |-> "cast", type |-> type, src |-> src, policy |-> eff,
                parent |-> parent, ret |-> r.ret, thrown |-> r.thrown,
                alloc |-> r.alloc, nobjs |-> Len(objs),
                refBefore |-> IF r.ret \in 1..Len(objs)
                              THEN objs[r.ret].refcnt ELSE 0,
                prev |-> PrevOf(src),
                srcVal |-> IF src = 0 THEN 0 ELSE mem[src],
                parentRef |-> IF parent = 0 THEN 0 ELSE objs[parent].refcnt,
                regKept |-> r.h.reg = registered_instances]
    /\ idcasts' = IF eff \in {"reference", "take_ownership"} /\ src # 0 /\ r.ret # 0
                  THEN idcasts \cup {<<src, r.ret>>}
                  ELSE idcasts
    /\ selfref' = IF src # 0 /\ dont_cache(Heap, src, eff, parent)
                  THEN selfref \cup {src}
                  ELSE selfref
    /\ freed' = r.h.freed
    /\ UNCHANGED <<call, ld, num, vec>>

\* a parent matters to reference_internal alone
Parents(policy) ==
    IF policy = "reference_internal" THEN {0} \cup Instances(objs) ELSE {0}

\* a caller casts a pointer (possibly null) to a native value
CastPtr ==
    /\ steps < MaxSteps
    /\ \E src \in 0..Len(mem), policy \in return_value_policy :
       \E parent \in Parents(policy) :
       \E r \in {cast_ptr(Heap, src, policy, parent)} :
          Observe(r, TypeOf(src), src, policy, parent)

\* a caller casts a native value by reference
CastRef ==
    /\ steps < MaxSteps
    /\ \E src \in 1..Len(mem), policy \in return_value_policy :
       \E parent \in Parents(policy) :
       \E r \in {cast_ref(Heap, src, policy, parent)} :
          Observe(r, TypeOf(src), src,
                  IF policy = "automatic" THEN "copy" ELSE policy, parent)

\* native code writes to one of its values
Mutate ==
    /\ steps < MaxSteps
    /\ \E a \in 1..NumPtrs : mem' = [mem EXCEPT ![a] = 1 - @]
    /\ steps' = steps + 1
    /\ UNCHANGED <<objs, registered_instances, err, last, idcasts, selfref,
                   freed, call, ld, num, vec>>

Next == CastPtr \/ CastRef \/ Mutate

Spec == Init /\ [][Next]_vars

----------------------------------------------------------------------------
(* Claims about the generic caster, checked under Spec *)

\* the most recent operation was a cast of a non-null pointer that
\* returned an instance
ReturnedInstance ==
    /\ last.op = "cast"
    /\ last.src # 0
    /\ last.ret \in Instances(objs)

\* C1: identity preservation.  For a registered type and a non-null pointer
\* p, every cast of p with policy reference or take_ownership returns the
\* same dynamic object; a cast of p that follows an earlier one allocates
\* no object and raises that object's reference count by exactly one.
IdentityPreserved ==
    /\ \A a, b \in idcasts : a[1] = b[1] => a[2] = b[2]
    /\ ( /\ last.op = "cast"
         /\ last.src # 0
         /\ TypeOf(last.src) \in registered_types
         /\ last.policy \in {"reference", "take_ownership"}
         /\ last.prev # 0 )
       => /\ last.ret = last.prev
          /\ ~last.alloc
          /\ Len(objs) = last.nobjs
          /\ objs[last.ret].refcnt = last.refBefore + 1

\* C1 witness: a second take_ownership cast of a pointer, after a cast of
\* another pointer, returned the object of the first
IdentityWitness ==
    /\ steps = 3
    /\ last.op = "cast"
    /\ last.policy = "take_ownership"
    /\ last.prev # 0
    /\ last.ret = last.prev
    /\ objs[last.ret].refcnt = 2
    /\ Cardinality(DOMAIN registered_instances) = 2

\* C2: copy independence.  The object a copy-policy cast of a
\* copy-constructible value returns wraps an address other than the
\* original's, holding the value the original had at the cast, whatever
\* native code writes to the original afterwards.
CopyIndependent ==
    ( /\ ReturnedInstance
      /\ last.policy = "copy"
      /\ TypeOf(last.src) = "T" )
    => /\ objs[last.ret].value # last.src
       /\ mem[objs[last.ret].value] = last.srcVal

\* C3: ownership correctness.  An object returned by a reference cast is
\* not owned; an object returned by a take_ownership or copy cast is owned
\* and is the only owning object for the pointer it wraps.
OwnershipCorrect ==
    ReturnedInstance
    => /\ last.policy = "reference" => ~objs[last.ret].owned
       /\ last.policy \in {"take_ownership", "copy"}
          => /\ objs[last.ret].owned
             /\ \A o \in Instances(objs) \ {last.ret} :
                   ~(objs[o].owned /\ objs[o].value = objs[last.ret].value)

\* C4: the registry invariant.  Every key p of the instance registry maps
\* to an object wrapping p, and unless a cast of p hit the self-reference
\* exception exactly one live object wraps p.
RegistryInvariant ==
    \A p \in DOMAIN registered_instances :
       /\ objs[registered_instances[p]].value = p
       /\ p \notin selfref
          => Cardinality({o \in Instances(objs) : objs[o].value = p}) = 1

\* C10: a copy-policy cast of a non-null pointer to a value of the
\* registered non-copyable type always ends in the cast_error, never in a
\* returned object.
NonCopyableCopyThrows ==
    ( /\ last.op = "cast"
      /\ last.src # 0
      /\ TypeOf(last.src) = "N"
      /\ last.policy = "copy" )
    => /\ last.thrown
       /\ last.ret = 0

----------------------------------------------------------------------------
(* Internal references: casts of a member that shares its parent's address *)

\* the type of the first data member of a class, which lies at the address
\* of the object itself: T begins with a member of the unregistered class U,
\* N with a member of class T, U has no class member
member_type(t) ==
    IF t = "T" THEN "U" ELSE IF t = "N" THEN "T" ELSE "none"

\* a getter casts a pointer to the first member of the object at src: the
\* pointer is src, the static type of the cast the member's
CastMember ==
    /\ steps < MaxSteps
    /\ \E src \in 1..Len(mem), policy \in return_value_policy :
       /\ member_type(TypeOf(src)) # "none"
       /\ \E parent \in Parents(policy) :
          \E r \in {cast(Heap, member_type(TypeOf(src)), src, policy, parent)} :
             Observe(r, member_type(TypeOf(src)), src, policy, parent)

NextInternal == CastPtr \/ CastRef \/ CastMember

SpecInternal == Init /\ [][NextInternal]_vars

\* the most recent cast hit the self-reference exception: policy
\* reference_internal, a parent, the parent wrapping the pointer cast
SelfReference ==
    /\ last.op = "cast"
    /\ last.src # 0
    /\ last.policy = "reference_internal"
    /\ last.parent # 0
    /\ objs[last.parent].value = last.src

\* the cast allocated an object that is not the parent, not owning, tied to
\* the parent by a counted reference, and absent from the unchanged registry
SelfReferenceEffect ==
    /\ last.alloc
    /\ ~last.thrown
    /\ Len(objs) = last.nobjs + 1
    /\ last.ret = last.nobjs + 1
    /\ last.ret # last.parent
    /\ objs[last.ret].value = last.src
    /\ ~objs[last.ret].owned
    /\ objs[last.ret].parent = last.parent
    /\ objs[last.parent].refcnt = last.parentRef + 1
    /\ last.regKept
    /\ \A p \in DOMAIN registered_instances : registered_instances[p] # last.ret

\* C11 as stated: every cast with policy reference_internal and a parent
\* wrapping the pointer cast allocates a new object distinct from the
\* parent, with owned = false, parent set to the given parent whose
\* reference count grows by one, and leaves the registry unchanged.
SelfReferenceAllocates ==
    SelfReference => SelfReferenceEffect

\* C11, for the types the code allocates: a cast with policy
\* reference_internal and a parent wrapping the pointer cast, whose type is
\* registered, allocates a new object distinct from the parent, not owned,
\* with the parent set and the parent's reference count one higher, and
\* leaves the registry unchanged; for an unregistered type the cast returns
\* nullptr with the error set, allocates nothing, takes no reference on
\* the parent and leaves the registry unchanged.
SelfReferenceRegistered ==
    SelfReference
    => IF last.type \in registered_types
       THEN SelfReferenceEffect
       ELSE /\ last.ret = 0
            /\ ~last.alloc
            /\ ~last.thrown
            /\ err
            /\ Len(objs) = last.nobjs
            /\ objs[last.parent].refcnt = last.parentRef
            /\ last.regKept

\* C11 witness: the pointer was a registry key mapped to the parent, and
\* the cast of the parent's first member with the parent as parent made a
\* second object for it, of the member's type, outside the registry
SelfReferenceWitness ==
    /\ SelfReference
    /\ SelfReferenceEffect
    /\ last.src \in DOMAIN registered_instances
    /\ registered_instances[last.src] = last.parent
    /\ objs[last.parent].type # objs[last.ret].type
    /\ objs[last.parent].refcnt = 2

----------------------------------------------------------------------------
(* The call marshaller: handle::call *)

RECURSIVE Py_XDECREF(_, _)
RECURSIVE dealloc(_, _)

\* the destruction of an instance whose reference count reached zero: the
\* registry entry goes, an owning instance deletes its native value, the
\* counted reference on the parent is given back
dealloc(h, o) ==
    LET ob == h.objs[o]
        h1 == [h EXCEPT
                 !.objs[o].refcnt = 0,
                 !.reg = IF ob.value \in DOMAIN @ /\ @[ob.value] = o
                         THEN [p \in DOMAIN @ \ {ob.value} |-> @[p]]
                         ELSE @,
                 !.freed = IF ob.owned THEN @ \cup {ob.value} ELSE @]
    IN Py_XDECREF(h1, ob.parent)

\* Py_DECREF / Py_XDECREF
Py_XDECREF(h, o) ==
    IF o = 0 THEN h
    ELSE IF h.objs[o].refcnt > 1 THEN [h EXCEPT !.objs[o].refcnt = @ - 1]
    ELSE dealloc(h, o)

RECURSIVE cast_args(_, _, _, _)
\* lines 539-542: the braced initialiser of args, evaluated left to right;
\* a cast_error thrown by a cast abandons the array with the pointers
\* produced so far
cast_args(h, args, i, produced) ==
    IF i > Len(args) THEN [h |-> h, produced |-> produced, thrown |-> FALSE]
    ELSE LET r == IF args[i].kind = "ref"
                  THEN cast_ref(h, args[i].p, "automatic", 0)
                  ELSE cast_ptr(h, args[i].p, "automatic", 0)
         IN IF r.thrown
            THEN [h |-> r.h, produced |-> produced, thrown |-> TRUE]
            ELSE cast_args(r.h, args, i + 1, Append(produced, r.ret))

RECURSIVE release_all(_, _, _)
\* lines 548-550 (and the destruction of the argument tuple, line 558):
\* Py_XDECREF of every element
release_all(h, produced, i) ==
    IF i > Len(produced) THEN h
    ELSE release_all(Py_XDECREF(h, produced[i]), produced, i + 1)

RECURSIVE retain_all(_, _, _)
\* a callable that keeps its arguments takes a reference on each
retain_all(os, produced, i) ==
    IF i > Len(produced) THEN os
    ELSE retain_all(Py_XINCREF(os, produced[i]), produced, i + 1)

\* lines 537-560: handle::call.  keep: whether the callable keeps
\* references to its arguments
handle_call(h, args, keep) ==
    LET c == cast_args(h, args, 1, <<>>)
        fail == \E i \in 1..Len(c.produced) : c.produced[i] = 0
    IN IF c.thrown THEN
          [h |-> c.h, outcome |-> "cast_error", invoked |-> FALSE,
           produced |-> c.produced]
       ELSE IF fail THEN
          [h |-> release_all(c.h, c.produced, 1), outcome |-> "cast_error",
           invoked |-> FALSE, produced |-> c.produced]
       ELSE
          LET h1 == IF keep
                    THEN [c.h EXCEPT !.objs = retain_all(@, c.produced, 1)]
                    ELSE c.h
          IN [h |-> release_all(h1, c.produced, 1), outcome |-> "returned",
              invoked |-> TRUE, produced |-> c.produced]

\* the native values a caller can still pass: not deleted
LivePtrs == (1..NumPtrs) \ freed

ArgChoices ==
    [kind : {"ref"}, p : LivePtrs] \cup [kind : {"ptr"}, p : {0} \cup LivePtrs]

ArgLists == UNION {[1..n -> ArgChoices] : n \in 0..MaxArgs}

\* native code calls a dynamic callable with native arguments
Call ==
    /\ steps < MaxCalls
    /\ \E args \in ArgLists, keep \in BOOLEAN :
       \E r \in {handle_call(Heap, args, keep)} :
          /\ objs' = r.h.objs
          /\ registered_instances' = r.h.reg
          /\ mem' = r.h.mem
          /\ err' = r.h.err
          /\ freed' = r.h.freed
          /\ steps' = steps + 1
          /\ call' = [outcome |-> r.outcome, invoked |-> r.invoked,
                      args |-> args, produced |-> r.produced,
                      pre |-> [o \in 1..Len(objs) |-> objs[o].refcnt]]
          /\ UNCHANGED <<last, idcasts, selfref, ld, num, vec>>

NextCall == Call

SpecCall == Init /\ [][NextCall]_vars

\* C5: call marshalling atomicity.  When handle::call fails because an
\* argument could not be cast, the callable was not invoked and no
\* reference to a dynamic value produced for an argument remains: each such
\* object has the reference count it had before the call (none, if the
\* call created it).
CallAtomic ==
    call.outcome = "cast_error"
    => /\ ~call.invoked
       /\ \A i \in 1..Len(call.produced) :
             LET o == call.produced[i] IN
             o # 0 => objs[o].refcnt =
                         IF o <= Len(call.pre) THEN call.pre[o] ELSE 0

----------------------------------------------------------------------------
(* The generic caster: type_caster<type>::load *)

\* the runtime types of the dynamic values handed to load: "B" is the type
\* the caster's native type is registered as, "D" a subtype of it, "A" and
\* "C" unrelated types
DynTypes == {"A", "B", "C", "D"}

PyType_IsSubtype(t, base) == t = base \/ (t = "D" /\ base = "B")

\* nullptr as a PyObject *
Null == [type |-> "null", value |-> 0]

\* instances: value is the native pointer the instance wraps
DynObjects == [type : DynTypes, value : 1..2]

\* the implicit-conversion functions a binding may register
Converters == {"fromA", "fromC", "AtoC", "AtoD", "never"}

\* converter(src, typeinfo->type): a new object, or nullptr when the
\* function does not accept src
converter(name, src, type) ==
    CASE name = "fromA" ->
            IF src.type = "A" THEN [type |-> type, value |-> 10 + src.value] ELSE Null
      [] name = "fromC" ->
            IF src.type = "C" THEN [type |-> type, value |-> 20 + src.value] ELSE Null
      [] name = "AtoC" ->
            IF src.type = "A" THEN [type |-> "C", value |-> 30 + src.value] ELSE Null
      [] name = "AtoD" ->
            IF src.type = "A" THEN [type |-> "D", value |-> 40 + src.value] ELSE Null
      [] OTHER -> Null

\* lines 28-33: the constructor looks the type up in registered_types
type_caster_new(found, conversions) ==
    [value |-> 0,
     typeinfo |-> IF found
                  THEN [registered |-> TRUE, type |-> "B",
                        implicit_conversions |-> conversions]
                  ELSE [registered |-> FALSE, type |-> "null",
                        implicit_conversions |-> <<>>],
     temp |-> Null,
     calls |-> <<>>]

\* a load that lets the conversion result be converted again
nested_convert_chained == TRUE

\* line 45: the convert argument of the nested load
nested_convert == FALSE

RECURSIVE load(_, _, _)
RECURSIVE try_conversions(_, _, _)

\* lines 43-47: the loop over typeinfo->implicit_conversions; calls records
\* every invocation of a conversion function with its argument
try_conversions(c, src, i) ==
    IF i > Len(c.typeinfo.implicit_conversions) THEN [c |-> c, ret |-> FALSE]
    ELSE LET t == converter(c.typeinfo.implicit_conversions[i], src, c.typeinfo.type)
             c1 == [c EXCEPT !.temp = t,
                             !.calls = Append(@, [conv |-> i, arg |-> src])]
             r == load(c1, t, nested_convert)
         IN IF r.ret THEN r ELSE try_conversions(r.c, src, i + 1)

\* lines 35-50: load(src, convert)
load(c, src, convert) ==
    IF src = Null \/ ~c.typeinfo.registered THEN [c |-> c, ret |-> FALSE]
    ELSE IF PyType_IsSubtype(src.type, c.typeinfo.type)
    THEN [c |-> [c EXCEPT !.value = src.value], ret |-> TRUE]
    ELSE IF convert THEN try_conversions(c, src, 1)
    ELSE [c |-> c, ret |-> FALSE]

ConversionLists == UNION {[1..n -> Converters] : n \in 0..MaxConv}

\* a freshly constructed caster and the arguments of its load
InitLoad ==
    /\ HeapInit
    /\ num = NoNum
    /\ vec = NoVec
    /\ \E src \in {Null} \cup DynObjects, convert \in BOOLEAN,
          found \in BOOLEAN, conversions \in ConversionLists :
          ld = [pc |-> "ready", src |-> src, convert |-> convert,
                c |-> type_caster_new(found, conversions), ret |-> FALSE]

Load ==
    /\ ld.pc = "ready"
    /\ \E r \in {load(ld.c, ld.src, ld.convert)} :
          ld' = [ld EXCEPT !.pc = "done", !.c = r.c, !.ret = r.ret]
    /\ UNCHANGED <<heapVars, num, vec>>

NextLoad == Load

SpecLoad == InitLoad /\ [][NextLoad]_vars

\* the result of the i-th registered conversion function on the source
ConversionResult(i) ==
    converter(ld.c.typeinfo.implicit_conversions[i], ld.src, ld.c.typeinfo.type)

\* the conversions whose result is an instance of the registered type
LoadableConversions ==
    {i \in 1..Len(ld.c.typeinfo.implicit_conversions) :
        /\ ConversionResult(i) # Null
        /\ PyType_IsSubtype(ConversionResult(i).type, ld.c.typeinfo.type)}

FirstLoadable ==
    CHOOSE k \in LoadableConversions : \A j \in LoadableConversions : k <= j

\* the conversion functions 1..k, each invoked once on the source, in order
InvokedUpTo(k) == [i \in 1..k |-> [conv |-> i, arg |-> ld.src]]

\* C7: load with conversion.  For a source that is not of the registered
\* type or a subtype: with convert, the conversion functions are invoked on
\* the source in registration order, load returns true bound to the first
\* result that is an instance of the registered type, no later function is
\* invoked and no function is invoked on a conversion result; it returns
\* false after all functions were tried when no result loads.  Without
\* convert no function is invoked and load returns false.
LoadConverts ==
    ( /\ ld.pc = "done"
      /\ ld.src # Null
      /\ ld.c.typeinfo.registered
      /\ ~PyType_IsSubtype(ld.src.type, ld.c.typeinfo.type) )
    => IF ~ld.convert
       THEN ~ld.ret /\ ld.c.calls = <<>>
       ELSE IF LoadableConversions = {}
       THEN /\ ~ld.ret
            /\ ld.c.calls = InvokedUpTo(Len(ld.c.typeinfo.implicit_conversions))
       ELSE /\ ld.ret
            /\ ld.c.calls = InvokedUpTo(FirstLoadable)
            /\ ld.c.value = ConversionResult(FirstLoadable).value
            /\ ld.c.temp = ConversionResult(FirstLoadable)

\* C7 witness: the second of three conversions is the first whose result
\* loads, after a first whose result has the wrong type
LoadConvertsWitness ==
    /\ ld.pc = "done"
    /\ ld.convert
    /\ ld.ret
    /\ ld.src.type = "A"
    /\ Len(ld.c.typeinfo.implicit_conversions) = 3
    /\ ld.c.typeinfo.implicit_conversions[1] = "AtoC"
    /\ FirstLoadable = 2
    /\ 3 \in LoadableConversions
    /\ Len(ld.c.calls) = 2

----------------------------------------------------------------------------
(* The number casters: PYBIND_TYPE_CASTER_NUMBER *)

\* An integer of any size is the record [t, h, m, l] standing for
\* t * 2^48 + h * 2^32 + m * 2^16 + l with h, m, l in 0 .. 2^16 - 1, so
\* that 32 and 64 bit values keep their width.
Limb == 2^16
HalfLimb == 2^15

PyInt(t, h, m, l) == [t |-> t, h |-> h, m |-> m, l |-> l]

Zero == PyInt(0, 0, 0, 0)
MinusOne == PyInt(-1, Limb - 1, Limb - 1, Limb - 1)

\* -2^(bits-1) <= v < 2^(bits-1)
FitsSigned(v, bits) ==
    IF bits = 32
    THEN \/ v.t = 0 /\ v.h = 0 /\ v.m < HalfLimb
         \/ v.t = -1 /\ v.h = Limb - 1 /\ v.m >= HalfLimb
    ELSE v.t >= -HalfLimb /\ v.t < HalfLimb

\* 0 <= v < 2^bits
FitsUnsigned(v, bits) ==
    IF bits = 32 THEN v.t = 0 /\ v.h = 0 ELSE v.t >= 0 /\ v.t < Limb

\* the conversion of an integer to a signed or unsigned type of the given
\* width: the value modulo 2^bits
Convert(v, bits, signed) ==
    IF bits = 32
    THEN IF signed /\ v.m >= HalfLimb
         THEN PyInt(-1, Limb - 1, v.m, v.l)
         ELSE PyInt(0, 0, v.m, v.l)
    ELSE IF signed
         THEN PyInt(((v.t + HalfLimb) % Limb) - HalfLimb, v.h, v.m, v.l)
         ELSE PyInt(v.t % Limb, v.h, v.m, v.l)

\* lines 157-160: the four integer casters, each with the native type's
\* width and signedness and the host conversion it parses with
NumberCasters ==
    {[type |-> "int32_t", bits |-> 32, signed |-> TRUE, py_type |-> "long"],
     [type |-> "uint32_t", bits |-> 32, signed |-> FALSE, py_type |-> "long"],
     [type |-> "int64_t", bits |-> 64, signed |-> TRUE, py_type |-> "long long"],
     [type |-> "uint64_t", bits |-> 64, signed |-> FALSE, py_type |-> "long long"]}

int32_caster ==
    CHOOSE k \in NumberCasters : k.type = "int32_t"

\* the width of (unsigned) long, 32 or 64 bits with the platform, and of
\* (unsigned) PY_LONG_LONG
PyTypeBits(k, longBits) == IF k.py_type = "long" THEN longBits ELSE 64

\* PyLong_AsLong, PyLong_AsUnsignedLong, PyLong_AsLongLong,
\* PyLong_AsUnsignedLongLong: the value, or -1 with the error indicator
\* set for a value that is no integer or does not fit
from_type(k, longBits, src) ==
    LET w == PyTypeBits(k, longBits)
        fits == IF k.signed THEN FitsSigned(src.v, w) ELSE FitsUnsigned(src.v, w)
    IN IF src.kind = "int" /\ fits
       THEN [v |-> src.v, err |-> FALSE]
       ELSE [v |-> Convert(MinusOne, w, k.signed), err |-> TRUE]

\* line 145: value == (type) -1 && PyErr_Occurred()
is_sentinel(value, k, errOccurred) ==
    value = Convert(MinusOne, k.bits, k.signed) /\ errOccurred

\* lines 143-150: load(src, convert), entered with the error indicator
\* errIn: the native value, the result and the error indicator left behind
number_load(k, longBits, src, errIn) ==
    LET r == from_type(k, longBits, src)
        value == Convert(r.v, k.bits, k.signed)
        errOccurred == errIn \/ r.err
    IN IF is_sentinel(value, k, errOccurred)
       THEN [value |-> value, ret |-> FALSE, err |-> FALSE]
       ELSE [value |-> value, ret |-> TRUE, err |-> errOccurred]

\* lines 151-153: cast(src): to_pytype((py_type) src)
number_cast(k, longBits, value) ==
    [kind |-> "int",
     v |-> Convert(value, PyTypeBits(k, longBits), k.signed)]

\* the widths long has on the platforms the header is built for
LongWidths == {32, 64}

\* dynamic values handed to a number caster: integers around the limits of
\* 32 and 64 bit types, and a value that is no number
SampleInts ==
    {PyInt(t, h, m, l) :
        t \in {-HalfLimb - 1, -HalfLimb, -1, 0, HalfLimb - 1, HalfLimb, Limb - 1, Limb},
        h \in {0, 1, Limb - 1},
        m \in {0, HalfLimb - 1, HalfLimb, Limb - 1},
        l \in {0, 5, Limb - 1}}

DynNumbers ==
    {[kind |-> "int", v |-> v] : v \in SampleInts} \cup {[kind |-> "str", v |-> Zero]}

InitNum ==
    /\ HeapInit
    /\ ld = NoLoad
    /\ vec = NoVec
    /\ \E k \in NumberCasters, longBits \in LongWidths, src \in DynNumbers :
          num = [pc |-> "ready", k |-> k, longBits |-> longBits, src |-> src,
                 value |-> Zero, ret |-> FALSE]

NumLoad ==
    /\ num.pc = "ready"
    /\ \E r \in {number_load(num.k, num.longBits, num.src, err)} :
          /\ num' = [num EXCEPT !.pc = "done", !.value = r.value, !.ret = r.ret]
          /\ err' = r.err
    /\ UNCHANGED <<heapRest, ld, vec>>

NextNum == NumLoad

SpecNum == InitNum /\ [][NextNum]_vars

\* the dynamic integer is in the range of the caster's native type
InRange(k, v) ==
    IF k.signed THEN FitsSigned(v, k.bits) ELSE FitsUnsigned(v, k.bits)

\* C8: the range check of the integer casters.  Loading a dynamic integer
\* outside the range of the native type returns false and leaves no error
\* set; loading one in range returns true with the native value equal to
\* the dynamic value.
NumberRangeChecked ==
    (num.pc = "done" /\ num.src.kind = "int")
    => IF InRange(num.k, num.src.v)
       THEN num.ret /\ num.value = num.src.v
       ELSE ~num.ret /\ ~err

----------------------------------------------------------------------------
(* The vector caster: type_caster<std::vector<int32_t>> *)

\* a load that appends to what the caster held
vector_clear_skipped(value) == value

\* line 277: value.clear()
vector_clear(value) == <<>>

RECURSIVE load_items(_, _, _, _, _)
\* lines 278-283: each element is loaded by a fresh int32_t caster and
\* pushed back; the first element that fails ends the load
load_items(value, longBits, items, i, e) ==
    IF i > Len(items) THEN [value |-> value, ret |-> TRUE, err |-> e]
    ELSE LET conv == number_load(int32_caster, longBits, items[i], e)
         IN IF ~conv.ret
            THEN [value |-> value, ret |-> FALSE, err |-> conv.err]
            ELSE load_items(Append(value, conv.value), longBits, items, i + 1,
                            conv.err)

\* lines 272-285: load(src, convert) on a caster holding value, entered
\* with the error indicator e
vector_load(value, longBits, src, e) ==
    IF src.kind # "list" THEN [value |-> value, ret |-> FALSE, err |-> e]
    ELSE load_items(vector_clear(value), longBits, src.items, 1, e)

\* lines 287-299: cast(src, policy, parent); a number cast returns no nullptr
vector_cast(src, longBits) ==
    [kind |-> "list",
     items |-> [i \in 1..Len(src) |-> number_cast(int32_caster, longBits, src[i])]]

\* int32_t elements: INT32_MIN and -1
NativeElems == {PyInt(-1, Limb - 1, HalfLimb, 0), MinusOne}

NativeVectors == UNION {[1..n -> NativeElems] : n \in 0..MaxLen}

\* elements of a list the host hands in: 1 and a string
HostItems ==
    {[kind |-> "int", v |-> PyInt(0, 0, 0, 1)], [kind |-> "str", v |-> Zero]}

\* a list, or a value that is no list
HostValues ==
    {[kind |-> "list", items |-> l] :
        l \in UNION {[1..n -> HostItems] : n \in 0..MaxLen}}
    \cup {[kind |-> "dict", items |-> <<>>]}

NoList == [kind |-> "none", items |-> <<>>]

\* a default-constructed caster, on either platform.  vec observes the most
\* recent operation: after a cast, src and the list it returned; after a
\* load, its argument (loaded), whether that was the list of the cast of
\* src (from), its result and what the caster held before (prev)
InitVec ==
    /\ HeapInit
    /\ ld = NoLoad
    /\ num = NoNum
    /\ \E longBits \in LongWidths :
          vec = [pc |-> "none", longBits |-> longBits, value |-> <<>>,
                 src |-> <<>>, list |-> NoList, loaded |-> NoList,
                 from |-> "none", ret |-> FALSE, prev |-> <<>>, n |-> 0]

\* native code casts a vector to a dynamic list
VecCast ==
    /\ vec.n < MaxVecOps
    /\ \E v \in NativeVectors :
          vec' = [pc |-> "cast", longBits |-> vec.longBits, value |-> vec.value,
                  src |-> v, list |-> vector_cast(v, vec.longBits),
                  loaded |-> NoList, from |-> "none", ret |-> FALSE,
                  prev |-> <<>>, n |-> vec.n + 1]
    /\ UNCHANGED <<heapVars, ld, num>>

\* the caster loads the list the last cast returned
VecLoadBack ==
    /\ vec.n < MaxVecOps
    /\ vec.pc = "cast"
    /\ \E r \in {vector_load(vec.value, vec.longBits, vec.list, err)} :
          /\ vec' = [vec EXCEPT !.pc = "load", !.loaded = vec.list,
                                !.from = "cast", !.value = r.value,
                                !.ret = r.ret, !.prev = vec.value, !.n = @ + 1]
          /\ err' = r.err
    /\ UNCHANGED <<heapRest, ld, num>>

\* the caster loads a dynamic value the host hands in
VecLoadHost ==
    /\ vec.n < MaxVecOps
    /\ \E l \in HostValues :
       \E r \in {vector_load(vec.value, vec.longBits, l, err)} :
          /\ vec' = [pc |-> "load", longBits |-> vec.longBits, value |-> r.value,
                     src |-> <<>>, list |-> NoList, loaded |-> l, from |-> "host",
                     ret |-> r.ret, prev |-> vec.value, n |-> vec.n + 1]
          /\ err' = r.err
    /\ UNCHANGED <<heapRest, ld, num>>

NextVec == VecCast \/ VecLoadBack \/ VecLoadHost

SpecVec == InitVec /\ [][NextVec]_vars

\* an element the int32_t caster does not load
ElementFails(item) == ~number_load(int32_caster, vec.longBits, item, FALSE).ret

\* C6: sequence load is all-or-nothing.  After the load of a list with an
\* element that fails its load, load has returned false and the caster's
\* vector shows nothing of the elements loaded before the failing one: it
\* is empty, or what the caster held before.
VectorLoadAllOrNothing ==
    ( /\ vec.pc = "load"
      /\ vec.loaded.kind = "list"
      /\ \E i \in 1..Len(vec.loaded.items) : ElementFails(vec.loaded.items[i]) )
    => /\ ~vec.ret
       /\ vec.value = <<>> \/ vec.value = vec.prev

\* C9: container round trip.  Loading the list that the cast of a native
\* vector of int32_t produced returns true and leaves the caster holding a
\* vector equal to the original, whatever it held before.
VectorRoundTrip ==
    (vec.pc = "load" /\ vec.from = "cast")
    => /\ vec.ret
       /\ vec.value = vec.src

\* C9 witness: a caster that held another vector has loaded back a vector
\* of three elements, -1 among them
VectorRoundTripWitness ==
    /\ vec.pc = "load"
    /\ vec.from = "cast"
    /\ vec.ret
    /\ Len(vec.src) = 3
    /\ \E i \in 1..Len(vec.src) : vec.src[i] = MinusOne
    /\ vec.value = vec.src
    /\ vec.prev # <<>>
    /\ vec.prev # vec.src

====
